---- MODULE Spec2Model ----
(***************************************************************************)
(* Motion-driven game engine of GameCanvas (src/unnamed/part_001).         *)
(*                                                                         *)
(* Numbers.  The source computes in IEEE doubles.  The model is fixed      *)
(* point: every length, position and velocity is an integer number of      *)
(* thousandths of a pixel (Scale), an intensity and a Math.random() draw   *)
(* are integer thousandths of 1.  All of the source's constants (0.12,     *)
(* 0.002, 1.8, ...) are exact at this resolution.                          *)
(*                                                                         *)
(* React state.  gameState, difficulty, score and highScore are useState   *)
(* cells.  updateGame is a useCallback closure over the values of the      *)
(* render that created it (deps, line 612); the running loop is swapped to *)
(* a new closure only by the effect of lines 615-618, which runs after a   *)
(* re-render.  A state update made inside a frame callback is therefore    *)
(* visible to later frames only once that re-render has happened: the      *)
(* variables cGameState, cScore, cHighScore are the values captured by the *)
(* closure the pending frame callback will run, and Render is the          *)
(* asynchronous re-render + effect.  Updates made in click handlers        *)
(* (startGame, difficulty buttons) are rendered synchronously by React, so *)
(* those actions refresh the closure themselves.                           *)
(***************************************************************************)
EXTENDS Integers, Sequences, FiniteSets, TLC

VARIABLES
    mode,             \* prop of GameCanvas, line 47: the exercise
    gameState,        \* useState, line 51
    difficulty,       \* useState, line 52
    score,            \* useState, line 53 (all queued updaters applied)
    highScore,        \* useState, line 54
    isSimulation,     \* useState, line 56
    simIntensity,     \* useState, line 57
    cGameState,       \* gameState as captured by the pending updateGame closure
    cScore,           \* score     as captured by the pending updateGame closure
    cHighScore,       \* highScore as captured by the pending updateGame closure
    playerY,          \* useRef, line 61
    playerVelocity,   \* useRef, line 62
    intensityRef,     \* useRef, line 63
    wasJumpingRef,    \* useRef, line 64
    obstacles,        \* useRef, line 65: sequence of [x, y, w, h, type]
    gameSpeed,        \* useRef, line 66
    frameRef,         \* useRef, line 67
    sparklesRef,      \* useRef, line 70: sequence of [alpha, decay]
    audioCtxRef,      \* useRef, line 76: TRUE once an AudioContext is held
    requestRef,       \* useRef, line 73: TRUE while a frame callback is pending
    pendingFrames,    \* number of callbacks in the browser's animation frame list
    media,            \* the MediaPipe effect of lines 203-273 (latest mount)
    audioEnv,         \* the browser's audio support: "ok" or "flaky"
    ev,               \* what the last step did (history; cues requested etc.)
    run,              \* history of the current run (since the last startGame);
                      \* best is the greatest score a run of the session ended with
    budget            \* exploration budget counters (idle frames, inputs, ...)

vars == << mode, gameState, difficulty, score, highScore, isSimulation, simIntensity,
           cGameState, cScore, cHighScore, playerY, playerVelocity,
           intensityRef, wasJumpingRef, obstacles, gameSpeed, frameRef,
           sparklesRef, audioCtxRef, requestRef, pendingFrames, media, audioEnv,
           ev, run, budget >>

----------------------------------------------------------------------------
(* Fixed point and program constants                                       *)

Scale == 1000

CANVAS_WIDTH == 1280
CANVAS_HEIGHT == 720

W == CANVAS_WIDTH * Scale
H == CANVAS_HEIGHT * Scale

AvatarSize == 60
PlayerX == 200
HalfBox == 30
MaxVelocity == 15
AdvancedScore == 10
PillarWidth == 60
CrateSize == 80
SparkleCount == 40

GameStates == {"TUTORIAL", "PLAYING", "GAME_OVER"}
GameModes == {"SQUAT", "ARM_RAISE", "LUNGE"}
Difficulties == {"EASY", "MEDIUM", "HARD"}

----------------------------------------------------------------------------
(* Bounds of the exploration                                               *)

MaxFrame == 150
MaxIdle == 2
MaxInputs == 1
InputWindow == 2
\* frames of the long Hard run, frames observed after a late Easy spawn
LongMaxFrame == 600
LifeFrames == 299

\* Math.random() draws (thousandths), one set per call site
ArchDraws == {400, 401, 600, 601}
GapDraws == {0, 999}
CrateDraws == {0, 999}
IsTopDraws == {500, 501}
HeightDraws == {0, 999}
\* raw intensities a pose sample can be interpreted to, slider positions
SliderDraws == {0, 500, 1000}
DecayDraws == {0, 999}

----------------------------------------------------------------------------
(* Difficulty presets: the switch of updateGame                            *)

Gravity(d) == CASE d = "EASY" -> 120 [] d = "MEDIUM" -> 500 [] OTHER -> 1100

LiftMultiplier(d) == CASE d = "EASY" -> 4000 [] d = "MEDIUM" -> 1800 [] OTHER -> 1100

SpawnRate(d) == CASE d = "EASY" -> 300 [] d = "MEDIUM" -> 100 [] OTHER -> 40

SpeedIncrement(d) == CASE d = "EASY" -> 2 [] d = "MEDIUM" -> 50 [] OTHER -> 150

GapSize(d) == CASE d = "EASY" -> 300 [] d = "MEDIUM" -> 180 [] OTHER -> 150

InitialSpeed(d) == CASE d = "EASY" -> 3000 [] d = "MEDIUM" -> 6000 [] OTHER -> 10000

----------------------------------------------------------------------------
(* Player physics, lines 381-396                                           *)

Min(a, b) == IF a < b THEN a ELSE b
Max(a, b) == IF a > b THEN a ELSE b

\* intensity (thousandths) times liftMultiplier (thousandths of a pixel)
Lift(i, d) == (i * LiftMultiplier(d)) \div Scale

ClampVelocity(v) == Max(-(MaxVelocity * Scale), Min(MaxVelocity * Scale, v))

\* faulty variant: the velocity is not limited
NextVelocityUnlimited(v, i, d) == v - Lift(i, d) + Gravity(d)

NextVelocity(v, i, d) == ClampVelocity(v - Lift(i, d) + Gravity(d))

\* faulty variant: the floor test forgets the avatar's size
BoundariesFieldHeight(p) ==
    LET a == IF p.y > H THEN [y |-> H, v |-> 0] ELSE p
    IN  IF a.y < 0 THEN [y |-> 0, v |-> 0] ELSE a

\* the two boundary tests, applied in the source's order
Boundaries(p) ==
    LET a == IF p.y > H - AvatarSize * Scale
             THEN [y |-> H - AvatarSize * Scale, v |-> 0] ELSE p
    IN  IF a.y < 0 THEN [y |-> 0, v |-> 0] ELSE a

PlayerPhysics(y, v, i, d) ==
    LET nv == NextVelocity(v, i, d)
    IN  Boundaries([y |-> y + nv, v |-> nv])

----------------------------------------------------------------------------
(* Dynamic spawn logic, lines 398-453                                      *)

\* faulty variant: the schedule counts frames from one
IsSpawnFrameFromOne(f, d) == (f + 1) % SpawnRate(d) = 0

IsSpawnFrame(f, d) == f % SpawnRate(d) = 0

\* which branch of lines 403 / 427 / 438 a draw selects
Archetype(sc, rand) ==
    IF sc >= AdvancedScore /\ rand > 600 THEN "gate"
    ELSE IF sc >= AdvancedScore /\ rand > 400 THEN "floating"
    ELSE "pillar"

\* faulty variant: the draw ranges over the field height less the gap
GapYWide(d, g) == g * (CANVAS_HEIGHT - GapSize(d)) + 50 * Scale

GapY(d, g) == g * (CANVAS_HEIGHT - GapSize(d) - 100) + 50 * Scale

Gate(d, g) ==
    << [x |-> W, y |-> 0, w |-> PillarWidth * Scale, h |-> GapY(d, g),
        type |-> "block", color |-> "#7209B7"],
       [x |-> W, y |-> GapY(d, g) + GapSize(d) * Scale, w |-> PillarWidth * Scale,
        h |-> H - (GapY(d, g) + GapSize(d) * Scale),
        type |-> "block", color |-> "#7209B7"] >>

Crate(c) ==
    << [x |-> W, y |-> c * (CANVAS_HEIGHT - 200) + 100 * Scale,
        w |-> CrateSize * Scale, h |-> CrateSize * Scale,
        type |-> "floating", color |-> "#FF9F1C"] >>

PillarHeight(hd) == hd * 200 + 100 * Scale

Pillar(t, hd) ==
    << [x |-> W, y |-> IF t > 500 THEN 0 ELSE H - PillarHeight(hd),
        w |-> PillarWidth * Scale, h |-> PillarHeight(hd),
        type |-> "block", color |-> "#F72585"] >>

\* the obstacles one spawn event pushes, for the captured score sc and the
\* draws rand (archetype), r1 (gapY / crate y / isTop) and r2 (pillar height)
Spawned(d, sc, rand, r1, r2) ==
    CASE Archetype(sc, rand) = "gate" -> Gate(d, r1)
      [] Archetype(sc, rand) = "floating" -> Crate(r1)
      [] OTHER -> Pillar(r1, r2)

\* the draws each branch consumes
FirstDraws(sc, rand) ==
    CASE Archetype(sc, rand) = "gate" -> GapDraws
      [] Archetype(sc, rand) = "floating" -> CrateDraws
      [] OTHER -> IsTopDraws

SecondDraws(sc, rand) ==
    IF Archetype(sc, rand) = "pillar" THEN HeightDraws ELSE {0}

----------------------------------------------------------------------------
(* Update obstacles, lines 455-483                                         *)

Moved(o, speed) == [o EXCEPT !.x = o.x - speed]

\* faulty variant: only the horizontal tests
CollidesXOnly(o, y) ==
    /\ (PlayerX + HalfBox) * Scale > o.x
    /\ (PlayerX - HalfBox) * Scale < o.x + o.w

\* collision check of lines 461-466, o already moved, y the new playerY
Collides(o, y) ==
    /\ (PlayerX + HalfBox) * Scale > o.x
    /\ (PlayerX - HalfBox) * Scale < o.x + o.w
    /\ y + HalfBox * Scale > o.y
    /\ y - HalfBox * Scale < o.y + o.h

\* faulty variant: removal already when the right edge touches the left border
OffScreenTouching(o) == o.x + o.w <= 0

\* faulty variant: removal as soon as the left edge leaves the field
OffScreenLeftEdge(o) == o.x < 0

\* removal test of line 472
OffScreen(o) == o.x + o.w < 0

\* setHighScore of line 469, sc and hs the captured score and highScore,
\* cur the current state
HighScoreAfter(sc, hs, cur) == IF sc > hs THEN sc ELSE cur

\* faulty variant: a crash returns to the tutorial
CollisionStateTutorial(hits, gs) == IF hits > 0 THEN "TUTORIAL" ELSE gs

\* setGameState of line 468: hits colliding entries, gs the current state
CollisionState(hits, gs) == IF hits > 0 THEN "GAME_OVER" ELSE gs

\* the setScore updaters of lines 474-481, one per removed entry
ScoreAfter(sc, gone) == sc + gone

\* faulty variant: the increment sits outside the spawn block
SpeedAfterEveryFrame(speed, spawn, d) == speed + SpeedIncrement(d)

\* gameSpeed after the spawn block, line 452
SpeedAfter(speed, spawn, d) == IF spawn THEN speed + SpeedIncrement(d) ELSE speed

RECURSIVE Keep(_)
Keep(s) ==
    IF s = << >> THEN << >>
    ELSE IF OffScreen(Head(s)) THEN Keep(Tail(s))
         ELSE << Head(s) >> \o Keep(Tail(s))

NumOffScreen(s) == Cardinality({i \in 1..Len(s) : OffScreen(s[i])})

NumColliding(s, y) == Cardinality({i \in 1..Len(s) : Collides(s[i], y)})

\* faulty variant: the walk starts at the last entry but one
MoveAllButLast(s, speed) ==
    [i \in 1..Len(s) |-> IF i < Len(s) THEN Moved(s[i], speed) ELSE s[i]]

\* obs.x -= gameSpeed.current for every entry, line 458
MoveAll(s, speed) == [i \in 1..Len(s) |-> Moved(s[i], speed)]

\* faulty variant: one test per frame, on the score after all its removals
LoopCuesFrameEnd(s, y, sc) ==
    [i \in 1..NumColliding(s, y) |-> "gameover"]
        \o (IF NumOffScreen(s) > 0 /\ (sc + NumOffScreen(s)) % 10 = 0
            THEN << "score" >> ELSE << >>)

\* cues of the loop, which walks the collection from its last entry to its first:
\* 'gameover' per colliding entry, 'score' per removal that makes the score a
\* positive multiple of 10 (sc is the score before the removals of this walk)
RECURSIVE LoopCues(_, _, _)
LoopCues(s, y, sc) ==
    IF s = << >> THEN << >>
    ELSE LET o == s[Len(s)]
             rest == SubSeq(s, 1, Len(s) - 1)
             hit == IF Collides(o, y) THEN << "gameover" >> ELSE << >>
             sc2 == IF OffScreen(o) THEN sc + 1 ELSE sc
             ms == IF OffScreen(o) /\ sc2 > 0 /\ sc2 % 10 = 0
                   THEN << "score" >> ELSE << >>
         IN  hit \o ms \o LoopCues(rest, y, sc2)

----------------------------------------------------------------------------
(* Sparkles, lines 96-111 and 486-507.  Of a sparkle the model keeps alpha *)
(* and decay, in thousandths; position, velocity, size and colour are read *)
(* by the drawing code only.                                               *)

Decay(r) == (r * 20) \div Scale + 10

\* createSparkles: the decay of every sparkle is its own Math.random() draw;
\* the exploration gives draw ra to the odd and rb to the even entries
createSparkles(s, ra, rb) ==
    s \o [i \in 1..SparkleCount |->
            [alpha |-> Scale, decay |-> Decay(IF i % 2 = 1 THEN ra ELSE rb)]]

\* faulty variant: a sparkle with alpha 0 is kept
FadedBelowZero(sp) == sp.alpha < 0

\* removal test of line 493
Faded(sp) == sp.alpha <= 0

RECURSIVE Alive(_)
Alive(s) ==
    IF s = << >> THEN << >>
    ELSE IF Faded(Head(s)) THEN Alive(Tail(s))
         ELSE << Head(s) >> \o Alive(Tail(s))

\* the sparkle loop of a frame
UpdateSparkles(s) ==
    Alive([i \in 1..Len(s) |-> [s[i] EXCEPT !.alpha = @ - s[i].decay]])

NumCues(cues, c) == Cardinality({i \in 1..Len(cues) : cues[i] = c})

----------------------------------------------------------------------------
(* playSound, lines 114-200.  ctx says whether audioCtxRef holds a context; *)
(* a is what the browser does in this call: "plays", "unavailable" (no      *)
(* AudioContext constructor), "newThrows" (the constructor throws) or       *)
(* "callThrows" (a call on the context, the oscillator or the gain throws). *)
(* The result is the context held afterwards, whether the cue sounded, and  *)
(* whether an exception reached the caller.                                 *)

AudioOutcomes == {"plays", "unavailable", "newThrows", "callThrows"}

AudioDraws(env) == IF env = "flaky" THEN AudioOutcomes ELSE {"plays"}

\* lines 117-122: the context after the lazy initialisation
ContextAfter(ctx, a) == ctx \/ a \in {"plays", "callThrows"}

\* an exception is raised inside the try block
AudioThrows(ctx, a) == (~ctx /\ a = "newThrows") \/ a = "callThrows"

\* faulty variant: no try / catch around the body
playSoundUncaught(ctx, a) ==
    [ctx |-> ContextAfter(ctx, a),
     played |-> ContextAfter(ctx, a) /\ ~AudioThrows(ctx, a),
     thrown |-> AudioThrows(ctx, a)]

playSound(ctx, a) ==
    [ctx |-> ContextAfter(ctx, a),
     played |-> ContextAfter(ctx, a) /\ ~AudioThrows(ctx, a),
     thrown |-> FALSE]

\* the playSound calls of one handler, in order; a call that throws ends it
RECURSIVE PlayAll(_, _, _)
PlayAll(cues, ctx, a) ==
    IF cues = << >> THEN [ctx |-> ctx, played |-> 0, thrown |-> FALSE]
    ELSE LET r == playSound(ctx, a)
             rest == PlayAll(Tail(cues), r.ctx, a)
         IN  IF r.thrown THEN [ctx |-> r.ctx, played |-> 0, thrown |-> TRUE]
             ELSE [ctx |-> rest.ctx,
                   played |-> rest.played + (IF r.played THEN 1 ELSE 0),
                   thrown |-> rest.thrown]

\* what the browser may do in the calls of a handler that requests cues
CueDraws(cues) == IF cues = << >> THEN {"none"} ELSE AudioDraws(audioEnv)

----------------------------------------------------------------------------
(* The frame loop's scheduling, lines 609-618.  requestRef.current holds   *)
(* the handle of the latest requestAnimationFrame call; the model keeps    *)
(* whether that callback is still in the browser's list (requestRef) and   *)
(* how many callbacks are in the list (pendingFrames).                     *)

\* faulty variant: the cleanup cancels nothing
CancelNothing(pending, ref) == pending

\* cancelAnimationFrame(requestRef.current), line 617
CancelFrame(pending, ref) == IF ref THEN pending - 1 ELSE pending

\* the effect of lines 615-618 re-run for a new updateGame: cleanup of the
\* old effect, then the request of line 616
Reschedule ==
    /\ pendingFrames' = CancelFrame(pendingFrames, requestRef) + 1
    /\ requestRef' = TRUE

----------------------------------------------------------------------------
(* The MediaPipe effect, lines 203-273.  media describes the effect run of *)
(* the latest mount with isSimulation false: phase is the position of the  *)
(* asynchronous initMediaPipe ("loading": awaiting the scripts, line 210;  *)
(* "starting": awaiting camera.start(), line 242; "ready": lines 243-246   *)
(* done; "failed": a catch block ran; "done": ended without a camera),     *)
(* pose and camera are the objects held by the effect's local variables,   *)
(* cleaned says whether the effect's cleanup (lines 268-271) has run.      *)

Loading == [phase |-> "loading", pose |-> "none", camera |-> "none",
            cleaned |-> FALSE]

\* Pose and Camera created, camera.start() called and not yet settled
CameraOn == [phase |-> "starting", pose |-> "open", camera |-> "started",
             cleaned |-> FALSE]

\* the cleanup of lines 268-271, on the objects the local variables hold
\* when it runs
Cleanup(md) ==
    [md EXCEPT !.camera = IF @ = "started" THEN "stopped" ELSE @,
               !.pose = IF @ = "open" THEN "closed" ELSE @,
               !.cleaned = TRUE]

\* videoRef.current: the video element is rendered while GameCanvas is
\* mounted and isSimulation is false (line 696)
VideoMounted == mode # "MENU" /\ ~isSimulation

\* the onFrame callback of line 232 sends an image to the Pose
CameraDelivers ==
    /\ VideoMounted
    /\ media.camera = "started"
    /\ media.pose = "open"

----------------------------------------------------------------------------
(* State after construction, lines 51-70                                   *)

NoEv(op) == [op |-> op, playing |-> FALSE, spawned |-> << >>, rand |-> -1,
             hits |-> 0, removed |-> 0, cleared |-> 0, cues |-> << >>,
             raw |-> -1, pose |-> << >>, args |-> << >>, out |-> << >>,
             audio |-> "none", played |-> 0, thrown |-> FALSE]

\* GameCanvas as mounted by App for the exercise m, its first frame
\* callback requested (line 616) and the MediaPipe initialisation in the
\* state md
MountedAt(m, env, md) ==
    /\ mode = m
    /\ audioEnv = env
    /\ audioCtxRef = FALSE
    /\ requestRef = TRUE
    /\ pendingFrames = 1
    /\ media = md
    /\ gameState = "TUTORIAL"
    /\ difficulty = "MEDIUM"
    /\ score = 0
    /\ highScore = 0
    /\ isSimulation = FALSE
    /\ simIntensity = 0
    /\ cGameState = "TUTORIAL"
    /\ cScore = 0
    /\ cHighScore = 0
    /\ playerY = H \div 2
    /\ playerVelocity = 0
    /\ intensityRef = 0
    /\ wasJumpingRef = FALSE
    /\ obstacles = << >>
    /\ gameSpeed = 6 * Scale
    /\ frameRef = 0
    /\ sparklesRef = << >>
    /\ ev = NoEv("init")
    /\ run = [n |-> 0, start |-> 0, spawns |-> 0, removed |-> 0, frames |-> 0,
              burst |-> -1, best |-> 0]
    /\ budget = [idle |-> 0, inputs |-> 0, exits |-> 0]

\* the game is explored from the point where the scripts are loaded and
\* the camera is being started
MountedWith(m, env) == MountedAt(m, env, CameraOn)

\* a browser whose audio works
Mounted(m) == MountedWith(m, "ok")

Init == \E m \in GameModes : Mounted(m)

\* the pending frame callback's closure holds the current state
Fresh == cGameState = gameState /\ cScore = score /\ cHighScore = highScore

----------------------------------------------------------------------------
(* updateGame, lines 326-612: one frame callback                           *)

\* body of  if (gameState === GameState.PLAYING)  for the draws rand, r1, r2
PlayingFrame(rand, r1, r2) ==
    LET d == difficulty
        p == PlayerPhysics(playerY, playerVelocity, intensityRef, d)
        spawn == IsSpawnFrame(frameRef, d)
        new == IF spawn THEN Spawned(d, cScore, rand, r1, r2) ELSE << >>
        speed == SpeedAfter(gameSpeed, spawn, d)
        moved == MoveAll(obstacles \o new, speed)
        hits == NumColliding(moved, p.y)
        gone == NumOffScreen(moved)
        cues == LoopCues(moved, p.y, score)
        burst == NumCues(cues, "score") > 0
    IN  /\ playerY' = p.y
        /\ playerVelocity' = p.v
        /\ gameSpeed' = speed
        /\ obstacles' = Keep(moved)
        /\ \E a \in CueDraws(cues) :
             LET au == PlayAll(cues, audioCtxRef, a)
             IN  /\ audioCtxRef' = au.ctx
                 \* an exception leaves updateGame before lines 468 and 609-610
                 /\ gameState' = IF au.thrown THEN gameState
                                  ELSE CollisionState(hits, gameState)
                 /\ frameRef' = IF au.thrown THEN frameRef ELSE frameRef + 1
                 /\ requestRef' = ~au.thrown
                 \* the callback leaves the list, line 610 requests the next
                 /\ pendingFrames' = pendingFrames - 1 + (IF au.thrown THEN 0 ELSE 1)
                 /\ ev' = [NoEv("frame") EXCEPT
                              !.playing = TRUE, !.spawned = new,
                              !.rand = IF spawn THEN rand ELSE -1,
                              !.hits = hits, !.removed = gone, !.cues = cues,
                              !.audio = a, !.played = au.played,
                              !.thrown = au.thrown]
        /\ highScore' = IF hits > 0
                        THEN HighScoreAfter(cScore, cHighScore, highScore)
                        ELSE highScore
        /\ score' = ScoreAfter(score, gone)
        /\ \E ra \in IF burst THEN DecayDraws ELSE {0} :
             \E rb \in IF burst THEN DecayDraws ELSE {0} :
               sparklesRef' = UpdateSparkles(IF burst
                                             THEN createSparkles(sparklesRef, ra, rb)
                                             ELSE sparklesRef)
        /\ run' = [run EXCEPT !.spawns = @ + (IF new # << >> THEN 1 ELSE 0),
                              !.burst = IF burst THEN frameRef ELSE @,
                              !.best = IF gameState' = "GAME_OVER"
                                       THEN Max(@, score') ELSE @,
                              !.removed = @ + gone,
                              !.frames = @ + 1]
        /\ UNCHANGED << budget, media >>

\* one frame callback before frame number limit; counted says whether a
\* frame outside Playing draws on the idle budget of the exploration
Frame(limit, counted) ==
    /\ pendingFrames > 0
    /\ frameRef < limit
    /\ UNCHANGED << mode, audioEnv, difficulty, isSimulation, simIntensity, cGameState,
                    cScore, cHighScore, intensityRef, wasJumpingRef >>
    /\ IF cGameState = "PLAYING"
       THEN /\ IF IsSpawnFrame(frameRef, difficulty)
               THEN \E rand \in ArchDraws :
                      \E r1 \in FirstDraws(cScore, rand) :
                        \E r2 \in SecondDraws(cScore, rand) :
                          PlayingFrame(rand, r1, r2)
               ELSE PlayingFrame(-1, -1, -1)
       ELSE /\ counted => budget.idle < MaxIdle
            /\ budget' = IF counted THEN [budget EXCEPT !.idle = @ + 1] ELSE budget
            /\ ev' = NoEv("frame")
            /\ sparklesRef' = UpdateSparkles(sparklesRef)
            /\ frameRef' = frameRef + 1
            /\ requestRef' = TRUE
            /\ pendingFrames' = pendingFrames - 1 + 1
            /\ UNCHANGED << audioCtxRef, media, gameState, score, highScore, playerY, playerVelocity,
                            obstacles, gameSpeed, run >>

UpdateGameUpTo(limit) == Frame(limit, TRUE)

UpdateGame == UpdateGameUpTo(MaxFrame)

\* re-render after state updates made by a frame callback, and the effect of
\* lines 615-618 that swaps the loop to the new updateGame closure
Render ==
    /\ ~Fresh
    /\ cGameState' = gameState
    /\ cScore' = score
    /\ cHighScore' = highScore
    /\ ev' = NoEv("render")
    /\ Reschedule
    /\ UNCHANGED << mode, audioEnv, audioCtxRef, media, gameState, difficulty, score, highScore, isSimulation,
                    simIntensity, playerY, playerVelocity, intensityRef,
                    wasJumpingRef, obstacles, gameSpeed, frameRef, sparklesRef,
                    run, budget >>

----------------------------------------------------------------------------
(* Click handlers                                                          *)

\* faulty variant: startGame resets the best score with the rest
HighScoreOnStartReset(hs) == 0

\* startGame sets no highScore
HighScoreOnStart(hs) == hs

\* startGame, lines 622-636; its buttons (START, Try Again) are rendered only
\* while the rendered gameState is TUTORIAL or GAME_OVER (lines 723, 758)
RunState ==
    [score |-> score, playerY |-> playerY, playerVelocity |-> playerVelocity,
     obstacles |-> obstacles, sparkles |-> sparklesRef, gameSpeed |-> gameSpeed,
     difficulty |-> difficulty]

\* faulty variant: the new run inherits the scroll speed of the last one
StartResetKeepSpeed(st) ==
    [st EXCEPT !.score = 0, !.playerY = H \div 2, !.obstacles = << >>,
               !.sparkles = << >>, !.playerVelocity = 0]

\* the resets of startGame, lines 623-632
StartReset(st) ==
    [st EXCEPT !.score = 0, !.playerY = H \div 2, !.obstacles = << >>,
               !.sparkles = << >>, !.playerVelocity = 0,
               !.gameSpeed = InitialSpeed(st.difficulty)]

StartGame ==
    /\ cGameState \in {"TUTORIAL", "GAME_OVER"}
    /\ score' = StartReset(RunState).score
    /\ playerY' = StartReset(RunState).playerY
    /\ obstacles' = StartReset(RunState).obstacles
    /\ sparklesRef' = StartReset(RunState).sparkles
    /\ playerVelocity' = StartReset(RunState).playerVelocity
    /\ gameSpeed' = StartReset(RunState).gameSpeed
    /\ \E a \in CueDraws(<< "start" >>) :
         LET au == PlayAll(<< "start" >>, audioCtxRef, a)
         IN  /\ audioCtxRef' = au.ctx
             \* an exception leaves startGame before line 635
             /\ gameState' = IF au.thrown THEN gameState ELSE "PLAYING"
             /\ ev' = [NoEv("startGame") EXCEPT
                          !.cues = << "start" >>,
                          !.cleared = Len(obstacles) + Len(sparklesRef),
                          !.audio = a, !.played = au.played,
                          !.thrown = au.thrown]
    /\ cGameState' = gameState'
    /\ cScore' = 0
    /\ highScore' = HighScoreOnStart(highScore)
    /\ cHighScore' = highScore'
    /\ run' = [n |-> run.n + 1, start |-> frameRef, spawns |-> 0, removed |-> 0,
               frames |-> 0, burst |-> -1, best |-> run.best]
    \* gameState is a dependency of updateGame (line 612)
    /\ Reschedule
    /\ UNCHANGED << mode, audioEnv, media, difficulty, isSimulation, simIntensity,
                    intensityRef, wasJumpingRef, frameRef, budget >>

\* difficulty selector, lines 728-740, rendered only in TUTORIAL
SetDifficulty(d) ==
    /\ cGameState = "TUTORIAL"
    /\ d # difficulty
    /\ difficulty' = d
    /\ ev' = NoEv("setDifficulty")
    \* difficulty is a dependency of updateGame (line 612)
    /\ Reschedule
    /\ UNCHANGED << mode, audioEnv, audioCtxRef, media, gameState, score, highScore, isSimulation, simIntensity,
                    cGameState, cScore, cHighScore, playerY, playerVelocity,
                    intensityRef, wasJumpingRef, obstacles, gameSpeed, frameRef,
                    sparklesRef, run, budget >>

----------------------------------------------------------------------------
(* App, src/src/App.tsx lines 6-12: GameCanvas is rendered while activeMode *)
(* is an exercise and the menu while it is null; mode "MENU" stands for     *)
(* null.  Unmounting discards the state and the refs of GameCanvas, the     *)
(* next mount starts from their initial values.                             *)

\* highScore is a useState(0) of GameCanvas (line 54), gone with the component
HighScoreOnExit(hs) == 0

\* onExit (buttons of lines 644 and 774): setActiveMode(null) unmounts
\* GameCanvas; the cleanup of line 617 cancels the pending frame callback
ExitToMenu ==
    /\ mode # "MENU"
    /\ mode' = "MENU"
    /\ gameState' = "TUTORIAL"
    /\ difficulty' = "MEDIUM"
    /\ score' = 0
    /\ highScore' = HighScoreOnExit(highScore)
    /\ isSimulation' = FALSE
    /\ simIntensity' = 0
    /\ cGameState' = "TUTORIAL"
    /\ cScore' = 0
    /\ cHighScore' = highScore'
    /\ playerY' = H \div 2
    /\ playerVelocity' = 0
    /\ intensityRef' = 0
    /\ wasJumpingRef' = FALSE
    /\ obstacles' = << >>
    /\ gameSpeed' = 6 * Scale
    /\ frameRef' = 0
    /\ sparklesRef' = << >>
    /\ audioCtxRef' = FALSE
    /\ requestRef' = FALSE
    /\ pendingFrames' = CancelFrame(pendingFrames, requestRef)
    /\ media' = Cleanup(media)
    /\ ev' = NoEv("exit")
    /\ run' = [n |-> 0, start |-> 0, spawns |-> 0, removed |-> 0, frames |-> 0,
               burst |-> -1, best |-> run.best]
    /\ budget' = [budget EXCEPT !.exits = @ + 1]
    /\ UNCHANGED audioEnv

\* a ModeCard click (lines 31-59): GameCanvas is mounted for the exercise m and
\* the effect of line 616 requests the first frame callback
SelectMode(m) ==
    /\ mode = "MENU"
    /\ mode' = m
    /\ requestRef' = TRUE
    /\ pendingFrames' = pendingFrames + 1
    /\ media' = Loading
    /\ ev' = NoEv("selectMode")
    /\ UNCHANGED << gameState, difficulty, score, highScore, isSimulation,
                    simIntensity, cGameState, cScore, cHighScore, playerY,
                    playerVelocity, intensityRef, wasJumpingRef, obstacles,
                    gameSpeed, frameRef, sparklesRef, audioCtxRef, audioEnv,
                    run, budget >>

----------------------------------------------------------------------------
(* utils/math.ts (src/unnamed/part_000).  Angles are whole degrees, a      *)
(* normalized value is in thousandths.  Landmark coordinates are on an     *)
(* integer grid whose difference vectors lie on the eight compass          *)
(* directions, where Math.atan2 is a whole number of degrees.              *)

\* Math.atan2(dy, dx) * 180 / Math.PI on the compass directions
Atan2Deg(dy, dx) ==
    CASE dy = 0 /\ dx >= 0 -> 0
      [] dy = 0 /\ dx < 0 -> 180
      [] dy > 0 /\ dx = 0 -> 90
      [] dy < 0 /\ dx = 0 -> -90
      [] dy = dx /\ dx > 0 -> 45
      [] dy = -dx /\ dx < 0 -> 135
      [] dy = dx /\ dx < 0 -> -135
      [] dy = -dx /\ dx > 0 -> -45

Abs(n) == IF n < 0 THEN -n ELSE n

\* faulty variant: the signed difference of the two directions
calculateAngleSigned(a, b, c) ==
    LET angle == Atan2Deg(c.y - b.y, c.x - b.x) - Atan2Deg(a.y - b.y, a.x - b.x)
    IN  IF angle > 180 THEN 360 - angle ELSE angle

calculateAngle(a, b, c) ==
    LET degrees == Atan2Deg(c.y - b.y, c.x - b.x) - Atan2Deg(a.y - b.y, a.x - b.x)
        angle == Abs(degrees)
    IN  IF angle > 180 THEN 360 - angle ELSE angle

\* a / b in thousandths, b # 0
Ratio(a, b) == IF b > 0 THEN (a * Scale) \div b ELSE ((-a) * Scale) \div (-b)

\* faulty variant: the ratio is returned as it is
normalizeUnclamped(value, min, max, inverse) ==
    LET normalized == Ratio(value - min, max - min)
    IN  IF inverse THEN Scale - normalized ELSE normalized

normalize(value, min, max, inverse) ==
    LET normalized == Max(0, Min(Scale, Ratio(value - min, max - min)))
    IN  IF inverse THEN Scale - normalized ELSE normalized

----------------------------------------------------------------------------
(* Pose analysis, lines 277-323, and the simulation controls               *)

NOSE == 0
LEFT_WRIST == 15
RIGHT_WRIST == 16
LEFT_HIP == 23
RIGHT_HIP == 24
LEFT_KNEE == 25
RIGHT_KNEE == 26
LEFT_ANKLE == 27
RIGHT_ANKLE == 28

LandmarkIds == {NOSE, LEFT_WRIST, RIGHT_WRIST, LEFT_HIP, RIGHT_HIP, LEFT_KNEE,
                RIGHT_KNEE, LEFT_ANKLE, RIGHT_ANKLE}

\* results.poseLandmarks is null: no landmark is defined
NoLandmarks == << >>

\* faulty variant: a wrist level with the nose counts as raised
IsHighOrLevel(wrist, nose) == wrist.y <= nose.y

\* lines 293-294: the wrist is above the nose (image y grows downwards)
IsHigh(wrist, nose) == wrist.y < nose.y

\* currentIntensity of onPoseResults, lines 278-307, for the exercise mode m,
\* the closure's isSimulation and simIntensity, and the delivered landmarks
currentIntensity(m, sim, simI, landmarks) ==
    IF sim THEN simI
    ELSE IF landmarks = NoLandmarks THEN 0
    ELSE CASE m = "SQUAT" ->
                normalize(calculateAngle(landmarks[LEFT_HIP], landmarks[LEFT_KNEE],
                                         landmarks[LEFT_ANKLE]), 160, 70, TRUE)
           [] m = "ARM_RAISE" ->
                LET leftHigh == IsHigh(landmarks[LEFT_WRIST], landmarks[NOSE])
                    rightHigh == IsHigh(landmarks[RIGHT_WRIST], landmarks[NOSE])
                IN  IF leftHigh /\ rightHigh THEN Scale
                    ELSE IF leftHigh \/ rightHigh THEN Scale \div 2
                    ELSE 0
           [] m = "LUNGE" ->
                LET lKneeAngle == calculateAngle(landmarks[LEFT_HIP],
                                                 landmarks[LEFT_KNEE],
                                                 landmarks[LEFT_ANKLE])
                    rKneeAngle == calculateAngle(landmarks[RIGHT_HIP],
                                                 landmarks[RIGHT_KNEE],
                                                 landmarks[RIGHT_ANKLE])
                IN  Max(normalize(lKneeAngle, 160, 90, TRUE),
                        normalize(rKneeAngle, 160, 90, TRUE))

\* faulty variant: the weights do not sum to one
SmoothOverweight(prev, raw) == (prev * 800 + raw * 300) \div Scale

\* faulty variant: a sample interpreted to 0 keeps the previous value
SmoothHoldOnZero(prev, raw) ==
    IF raw = 0 THEN prev ELSE (prev * 800 + raw * 200) \div Scale

\* line 310, to the thousandth
Smooth(prev, raw) == (prev * 800 + raw * 200) \div Scale

\* line 313: the sample requests the 'jump' cue
Jumps(s, latch) == s > 600 /\ ~latch

\* faulty variant: no hysteresis, the latch follows the 0.6 threshold
LatchFollowsThreshold(s, latch) == s > 600

\* wasJumpingRef after the sample, lines 313-318
Latch(s, latch) ==
    IF Jumps(s, latch) THEN TRUE ELSE IF s < 400 THEN FALSE ELSE latch

\* smoothing and the sound trigger, lines 309-318, for a sample that was
\* interpreted to raw
PoseSample(raw, landmarks) ==
    LET s == Smooth(intensityRef, raw)
        cues == IF Jumps(s, wasJumpingRef) THEN << "jump" >> ELSE << >>
    IN  /\ intensityRef' = s
        /\ \E a \in CueDraws(cues) :
             LET au == PlayAll(cues, audioCtxRef, a)
             IN  /\ audioCtxRef' = au.ctx
                 \* an exception leaves onPoseResults before line 315
                 /\ wasJumpingRef' = IF au.thrown THEN wasJumpingRef
                                      ELSE Latch(s, wasJumpingRef)
                 /\ ev' = [NoEv("pose") EXCEPT
                              !.cues = cues, !.raw = raw, !.pose = landmarks,
                              !.audio = a, !.played = au.played,
                              !.thrown = au.thrown]
        /\ UNCHANGED << mode, audioEnv, requestRef, pendingFrames, media, gameState, difficulty, score, highScore,
                        isSimulation, simIntensity, cGameState, cScore,
                        cHighScore, playerY, playerVelocity, obstacles, gameSpeed,
                        frameRef, sparklesRef, run >>

\* onPoseResults as registered with the pose source, line 227: the closure of
\* the first render, where isSimulation is false
onPoseResults(landmarks) ==
    PoseSample(currentIntensity(mode, FALSE, simIntensity, landmarks), landmarks)

\* simIntensity as captured by the onPoseResults closure the 50 ms interval of
\* lines 262-264 calls: the effect's deps are [isSimulation] only, so the
\* closure is the one of the render that turned simulation on
CapturedSimIntensity == 0

\* onPoseResults({ poseLandmarks: null }) of the simulation interval
SimulatedResults ==
    PoseSample(currentIntensity(mode, TRUE, CapturedSimIntensity, NoLandmarks),
               NoLandmarks)

\* camera.start() or the script load fails: lines 247-256; the re-render
\* with isSimulation true runs the cleanup of the MediaPipe effect
SimulationFallback ==
    /\ ~isSimulation
    /\ mode # "MENU"
    /\ media.phase \in {"loading", "starting"}
    /\ isSimulation' = TRUE
    /\ media' = Cleanup([media EXCEPT !.phase = "failed"])
    /\ ev' = NoEv("cameraFail")
    /\ UNCHANGED << mode, audioEnv, audioCtxRef, requestRef, pendingFrames, gameState, difficulty, score, highScore, simIntensity,
                    cGameState, cScore, cHighScore, playerY, playerVelocity,
                    intensityRef, wasJumpingRef, obstacles, gameSpeed, frameRef,
                    sparklesRef, run >>

\* slider onChange, lines 813-817
SliderChange(val) ==
    /\ isSimulation
    /\ simIntensity' = val
    /\ intensityRef' = val
    /\ ev' = NoEv("slider")
    /\ UNCHANGED << mode, audioEnv, audioCtxRef, requestRef, pendingFrames, media, gameState, difficulty, score, highScore, isSimulation,
                    cGameState, cScore, cHighScore, playerY, playerVelocity,
                    wasJumpingRef, obstacles, gameSpeed, frameRef, sparklesRef,
                    run >>

\* Pose results the exploration delivers.  The knees are fixed, hips and
\* ankles lie one step from their knee in a compass direction, the wrists
\* one step above, level with or one step below the nose; v is the
\* visibility of the left knee in thousandths.
Point(x, y, v) == [x |-> x, y |-> y, visibility |-> v]

Body(hipL, ankleL, hipR, ankleR, wristL, wristR, v) ==
    [i \in LandmarkIds |->
        CASE i = NOSE -> Point(3, 1, 900)
          [] i = LEFT_WRIST -> Point(2, 1 + wristL, 900)
          [] i = RIGHT_WRIST -> Point(4, 1 + wristR, 900)
          [] i = LEFT_KNEE -> Point(1, 5, v)
          [] i = LEFT_HIP -> Point(1 + hipL[1], 5 + hipL[2], 900)
          [] i = LEFT_ANKLE -> Point(1 + ankleL[1], 5 + ankleL[2], 900)
          [] i = RIGHT_KNEE -> Point(5, 5, 900)
          [] i = RIGHT_HIP -> Point(5 + hipR[1], 5 + hipR[2], 900)
          [] i = RIGHT_ANKLE -> Point(5 + ankleR[1], 5 + ankleR[2], 900)]

Up == << 0, -1 >>
Down == << 0, 1 >>
Compass == {<< dx, dy >> : dx \in -1..1, dy \in -1..1} \ {<< 0, 0 >>}
\* ankle directions for the knee angles 180, 135, 90 and 45 under a hip Up
AnkleDraws == {Down, << 1, 1 >>, << 1, 0 >>, << 1, -1 >>}
VisibilityDraws == {200, 900}
WristDraws == {-1, 0, 1}

PoseDraws(m) ==
    {NoLandmarks} \cup
    CASE m = "SQUAT" ->
           {Body(Up, a, Up, Down, 1, 1, v) :
              a \in Compass, v \in VisibilityDraws}
      [] m = "ARM_RAISE" ->
           {Body(Up, Down, Up, Down, wl, wr, 900) :
              wl \in WristDraws, wr \in WristDraws}
      [] m = "LUNGE" ->
           {Body(Up, al, Up, ar, 1, 1, v) :
              al \in AnkleDraws, ar \in AnkleDraws, v \in VisibilityDraws \ {200}} \cup
           {Body(Up, << 1, 0 >>, Up, Down, 1, 1, 200)}

\* standing straight with both wrists up, and folded legs with both wrists
\* down
Stretched == Body(Up, Down, Up, Down, -1, -1, 900)
Folded == Body(Up, << 1, -1 >>, Up, << 1, -1 >>, 1, 1, 900)

\* the exploration of Spec delivers at most MaxInputs samples and slider
\* changes, all before frame InputWindow
InputAllowed == budget.inputs < MaxInputs /\ frameRef < InputWindow

\* a result delivered by the pose source (camera running)
OnPoseResults ==
    /\ CameraDelivers
    /\ InputAllowed
    /\ \E landmarks \in {NoLandmarks, Stretched, Folded} : onPoseResults(landmarks)
    /\ budget' = [budget EXCEPT !.inputs = @ + 1]

\* the fallback to simulation, before any input of the exploration
CameraFail ==
    /\ budget.inputs = 0
    /\ frameRef < InputWindow
    /\ SimulationFallback
    /\ UNCHANGED budget

SimTick ==
    /\ isSimulation
    /\ InputAllowed
    /\ SimulatedResults
    /\ budget' = [budget EXCEPT !.inputs = @ + 1]

SimSlider(val) ==
    /\ InputAllowed
    /\ SliderChange(val)
    /\ budget' = [budget EXCEPT !.inputs = @ + 1]

----------------------------------------------------------------------------

Next ==
    \/ UpdateGame
    \/ Render
    \/ StartGame
    \/ \E d \in Difficulties : SetDifficulty(d)
    \/ OnPoseResults
    \/ CameraFail
    \/ SimTick
    \/ \E val \in SliderDraws : SimSlider(val)

\* Frames, clicks and re-renders never read the exercise mode, and the pose
\* results delivered here are interpreted alike in every mode: the game is
\* explored for Squat sessions, the pose stream (PoseSpec) for every mode.
Spec == Mounted("SQUAT") /\ [][Next]_vars

----------------------------------------------------------------------------
(* Long runs.  The same actions, in an environment that starts at frame 0  *)
(* or retries after a crash, sends no pose input (the avatar rests on the  *)
(* floor) and whose draws make every pillar a short pillar at the top      *)
(* edge, so that on Hard the avatar lives until the score passes 10.       *)
(* Every behaviour of LongSpec is a behaviour of the program.              *)

ShortTopPillars ==
    \A i \in 1..Len(ev.spawned) :
        ev.spawned[i].color = "#F72585" =>
            ev.spawned[i].y = 0 /\ ev.spawned[i].h = 100 * Scale

LongDifficulty == \E d \in Difficulties : SetDifficulty(d)

LongStart == (frameRef = 0 \/ cGameState = "GAME_OVER") /\ StartGame

LongFrame ==
    /\ cGameState = "PLAYING"
    /\ UpdateGameUpTo(LongMaxFrame)
    /\ ShortTopPillars'

LongNext ==
    \/ LongDifficulty
    \/ LongStart
    \/ LongFrame
    \/ Render

LongSpec == Init /\ [][LongNext]_vars

----------------------------------------------------------------------------
(* Life of one obstacle at constant scroll speed.  On Easy a spawn event   *)
(* comes every 300 frames, and once the scroll speed is about 5 an         *)
(* obstacle leaves the field before the next one: between two spawn events *)
(* the speed is constant.  LifeInit is the state of an Easy run started at *)
(* frame 0, just before its spawn event number n + 1, every earlier        *)
(* obstacle passed with the avatar on the floor.                           *)

LifeSpawnCounts == {999, 1000}

\* the state of a run on difficulty d just before its spawn event number
\* n + 1, no obstacle left in the field
LateInit(d, n) ==
    /\ mode \in GameModes
    /\ audioEnv = "ok"
    /\ audioCtxRef = TRUE
    /\ requestRef = TRUE
    /\ pendingFrames = 1
    /\ media = CameraOn
    /\ gameState = "PLAYING"
    /\ difficulty = d
    /\ score = n
    /\ highScore = 0
    /\ isSimulation = FALSE
    /\ simIntensity = 0
    /\ cGameState = "PLAYING"
    /\ cScore = n
    /\ cHighScore = 0
    /\ playerY = H - AvatarSize * Scale
    /\ playerVelocity = 0
    /\ intensityRef = 0
    /\ wasJumpingRef = FALSE
    /\ obstacles = << >>
    /\ gameSpeed = InitialSpeed(d) + n * SpeedIncrement(d)
    /\ frameRef = n * SpawnRate(d)
    /\ sparklesRef = << >>
    /\ ev = NoEv("frame")
    /\ run = [n |-> 1, start |-> 0, spawns |-> n, removed |-> n,
              frames |-> n * SpawnRate(d), burst |-> -1, best |-> 0]
    /\ budget = [idle |-> 0, inputs |-> 0, exits |-> 0]

LifeInitAt(n) == LateInit("EASY", n)

LifeInit == \E n \in LifeSpawnCounts : LifeInitAt(n)

LastSpawnFrame == (frameRef \div SpawnRate(difficulty)) * SpawnRate(difficulty)

LifeNext == UpdateGameUpTo(LastSpawnFrame + LifeFrames)

LifeSpec == LifeInit /\ [][LifeNext]_vars

----------------------------------------------------------------------------
(* A session with a visit to the menu: games on Medium or Hard up to frame *)
(* 150 with a player at rest, an exit from the rendered Tutorial or        *)
(* GameOver state, and a new game in any mode.                             *)

SessionMaxFrame == 150
MaxExits == 1

InGame == mode # "MENU"

SessionDifficulty == InGame /\ SetDifficulty("HARD")

SessionStart == InGame /\ LongStart

SessionFrame == cGameState = "PLAYING" /\ UpdateGameUpTo(SessionMaxFrame)

SessionRender == InGame /\ Render

SessionExit ==
    /\ cGameState \in {"TUTORIAL", "GAME_OVER"}
    /\ budget.exits < MaxExits
    /\ ExitToMenu

SessionSelect == \E m \in GameModes : SelectMode(m)

SessionNext ==
    \/ SessionDifficulty
    \/ SessionStart
    \/ SessionFrame
    \/ SessionRender
    \/ SessionExit
    \/ SessionSelect

SessionSpec == Mounted("SQUAT") /\ [][SessionNext]_vars

----------------------------------------------------------------------------
(* One spawn period late in a run, on every difficulty.  After 920 spawn   *)
(* events the scroll speed is 4.84, 52 and 148: an obstacle has left the   *)
(* field before the next spawn event, and on Hard it moves from x = 243    *)
(* to x = 95 in one frame, past the avatar's box (170..230) untouched.     *)

LateSpawnCount == 920

LateStart == mode = "SQUAT" /\ \E d \in Difficulties : LateInit(d, LateSpawnCount)

LateNext == Frame(LastSpawnFrame + SpawnRate(difficulty) - 1, FALSE)

LateSpec == LateStart /\ [][LateNext]_vars

----------------------------------------------------------------------------
(* A milestone and its burst.  About 5000 obstacles into an Easy run the   *)
(* scroll speed is 13: the obstacle of a spawn event is removed some 105   *)
(* frames later and the burst it may set off has faded before the next     *)
(* spawn event.  The session is followed from the spawn event through the  *)
(* removal, a re-render while the burst is live, frames in the rendered    *)
(* state and a restart.                                                    *)

BurstSpawnCounts == {4998, 4999}
BurstFrames == 210

BurstInit == mode = "SQUAT" /\ \E n \in BurstSpawnCounts : LifeInitAt(n)

BurstFrame == run.n = 1 /\ Frame(LastSpawnFrame + BurstFrames, FALSE)

BurstRender == sparklesRef # << >> /\ Render

BurstNext ==
    \/ BurstFrame
    \/ BurstRender
    \/ StartGame

BurstSpec == BurstInit /\ [][BurstNext]_vars

----------------------------------------------------------------------------
(* The pose stream on its own: any number of pose results, simulation      *)
(* ticks and slider changes, for every exercise mode, with no frame        *)
(* callback in between (frames never write intensityRef or wasJumpingRef). *)

StreamPose ==
    /\ CameraDelivers
    /\ \E landmarks \in PoseDraws(mode) : onPoseResults(landmarks)
    /\ UNCHANGED budget

\* the fallback happens while the camera is started, before any result
StreamFail == ev.op = "init" /\ SimulationFallback /\ UNCHANGED budget

StreamTick == isSimulation /\ SimulatedResults /\ UNCHANGED budget

StreamSlider == \E val \in SliderDraws : SliderChange(val) /\ UNCHANGED budget

PoseNext ==
    \/ StreamPose
    \/ StreamFail
    \/ StreamTick
    \/ StreamSlider

PoseSpec == Init /\ [][PoseNext]_vars

----------------------------------------------------------------------------
(* The game in a browser whose audio may fail in any playSound call.  The  *)
(* pose stream runs before the first frame callback and the player is at   *)
(* rest from then on; the game is played on Hard, where the first obstacle *)
(* reaches the avatar after some 105 frames.                               *)

AudioMaxFrame == 115

AudioPose == frameRef = 0 /\ StreamPose

AudioFrame == (frameRef = 0 => intensityRef = 0) /\ UpdateGameUpTo(AudioMaxFrame)

AudioNext ==
    \/ AudioFrame
    \/ Render
    \/ StartGame
    \/ SetDifficulty("HARD")
    \/ AudioPose

AudioSpec == MountedWith("SQUAT", "flaky") /\ [][AudioNext]_vars

----------------------------------------------------------------------------
(* The MediaPipe initialisation and its cleanup.  The session starts with  *)
(* the scripts loading; the loads and camera.start() settle at any time,   *)
(* before or after the player has left for the menu or the component has   *)
(* fallen back to simulation.  Pose results arrive once the camera runs.   *)

\* lines 210-242 after the scripts have loaded: the Pose is created, and the
\* Camera is created and started if the video element is there
ScriptsLoaded ==
    /\ media.phase = "loading"
    /\ media' = IF VideoMounted
                THEN [media EXCEPT !.phase = "starting", !.pose = "open",
                                   !.camera = "started"]
                ELSE [media EXCEPT !.phase = "done", !.pose = "open"]
    /\ ev' = NoEv("scriptsLoaded")
    /\ UNCHANGED << mode, audioEnv, audioCtxRef, requestRef, pendingFrames, gameState,
                    difficulty, score, highScore, isSimulation, simIntensity,
                    cGameState, cScore, cHighScore, playerY, playerVelocity,
                    intensityRef, wasJumpingRef, obstacles, gameSpeed, frameRef,
                    sparklesRef, run, budget >>

\* camera.start() resolves, lines 242-246
CameraStarted ==
    /\ media.phase = "starting"
    /\ media' = [media EXCEPT !.phase = "ready"]
    /\ ev' = NoEv("cameraStarted")
    /\ UNCHANGED << mode, audioEnv, audioCtxRef, requestRef, pendingFrames, gameState,
                    difficulty, score, highScore, isSimulation, simIntensity,
                    cGameState, cScore, cHighScore, playerY, playerVelocity,
                    intensityRef, wasJumpingRef, obstacles, gameSpeed, frameRef,
                    sparklesRef, run, budget >>

\* a catch block (lines 247-256) runs after GameCanvas has been unmounted:
\* setIsSimulation(true) has no component to update
FailUnmounted ==
    /\ mode = "MENU"
    /\ media.phase \in {"loading", "starting"}
    /\ media' = [media EXCEPT !.phase = "failed"]
    /\ ev' = NoEv("cameraFail")
    /\ UNCHANGED << mode, audioEnv, audioCtxRef, requestRef, pendingFrames, gameState,
                    difficulty, score, highScore, isSimulation, simIntensity,
                    cGameState, cScore, cHighScore, playerY, playerVelocity,
                    intensityRef, wasJumpingRef, obstacles, gameSpeed, frameRef,
                    sparklesRef, run, budget >>

MediaNext ==
    \/ ScriptsLoaded
    \/ CameraStarted
    \/ SimulationFallback /\ UNCHANGED budget
    \/ FailUnmounted
    \/ media.phase = "ready" /\ StreamPose
    \/ StreamTick
    \/ ExitToMenu

MediaSpec == MountedAt("SQUAT", "ok", Loading) /\ [][MediaNext]_vars

----------------------------------------------------------------------------
(* utils/math.ts on its own: calls of normalize and calculateAngle with    *)
(* drawn arguments; ev records the arguments and the results.              *)

\* values and reference bounds of normalize, in degrees; 160, 90 and 70 are
\* the bounds of the calls of lines 287, 303 and 304
ValueDraws == {-20, 0, 45, 70, 90, 115, 135, 160, 180, 200}
RangeDraws == {70, 90, 160}

\* the vertex b and the displacements of a and c from it
VertexDraws == {<< 1, 5 >>, << 3, 2 >>}
ArmDraws == Compass \cup {<< 0, 0 >>}

MathIdle ==
    UNCHANGED << mode, audioEnv, audioCtxRef, requestRef, pendingFrames, media, gameState, difficulty, score, highScore, isSimulation,
                 simIntensity, cGameState, cScore, cHighScore, playerY,
                 playerVelocity, intensityRef, wasJumpingRef, obstacles,
                 gameSpeed, frameRef, sparklesRef, run, budget >>

\* normalize(value, min, max) and normalize(value, min, max, true)
NormalizeCall(value, min, max) ==
    /\ ev' = [NoEv("normalize") EXCEPT
                 !.args = << value, min, max >>,
                 !.out = << normalize(value, min, max, FALSE),
                            normalize(value, min, max, TRUE) >>]
    /\ MathIdle

\* calculateAngle(a, b, c) and calculateAngle(c, b, a)
AngleCall(p, q, r) ==
    /\ ev' = [NoEv("calculateAngle") EXCEPT
                 !.args = << << p.x, p.y >>, << q.x, q.y >>, << r.x, r.y >> >>,
                 !.out = << calculateAngle(p, q, r), calculateAngle(r, q, p) >>]
    /\ MathIdle

MathNormalize ==
    \E value \in ValueDraws : \E min \in RangeDraws :
        \E max \in RangeDraws \ {min} : NormalizeCall(value, min, max)

MathAngle ==
    \E v \in VertexDraws : \E da \in ArmDraws : \E dc \in ArmDraws :
        AngleCall(Point(v[1] + da[1], v[2] + da[2], 900),
                  Point(v[1], v[2], 900),
                  Point(v[1] + dc[1], v[2] + dc[2], 900))

MathNext ==
    \/ MathNormalize
    \/ MathAngle

MathSpec == Init /\ [][MathNext]_vars

----------------------------------------------------------------------------
(* Properties                                                              *)

Range(s) == {s[i] : i \in 1..Len(s)}

\* rectangle o and the 60x60 hitbox centred at (200, y) overlap with positive area
Overlaps(o, y) ==
    /\ Min(o.x + o.w, 230 * Scale) > Max(o.x, 170 * Scale)
    /\ Min(o.y + o.h, y + 30 * Scale) > Max(o.y, y - 30 * Scale)

AnyOverlap(s, y) == \E i \in 1..Len(s) : Overlaps(s[i], y)

\* C1: the avatar's position stays within [0, 660] and its velocity within
\* [-15, 15], whatever frames, samples, slider changes and startGame calls occur
C1_AvatarBounds ==
    /\ 0 <= playerY /\ playerY <= 660 * Scale
    /\ -15 * Scale <= playerVelocity /\ playerVelocity <= 15 * Scale

\* a Playing frame has clamped the avatar at the floor
C1_Witness ==
    ev.op = "frame" /\ ev.playing /\ playerY = 660 * Scale /\ playerVelocity = 0

\* C2: gameState changes only by TUTORIAL -> PLAYING (startGame),
\* PLAYING -> GAME_OVER (a frame that found a collision) and
\* GAME_OVER -> PLAYING (startGame); every other step leaves it unchanged
C2_Transitions ==
    [][ gameState' # gameState =>
          \/ /\ gameState = "TUTORIAL" /\ gameState' = "PLAYING"
             /\ ev'.op = "startGame"
          \/ /\ gameState = "PLAYING" /\ gameState' = "GAME_OVER"
             /\ ev'.op = "frame" /\ AnyOverlap(obstacles', playerY')
          \/ /\ gameState = "GAME_OVER" /\ gameState' = "PLAYING"
             /\ ev'.op = "startGame" ]_vars

\* a retry has been taken: the second run is Playing
C2_Witness == run.n = 2 /\ gameState = "PLAYING"

\* C3: in a frame of a Playing game, an obstacle overlapping the hitbox with
\* positive area makes the state GAME_OVER and requests 'gameover'; with no
\* such obstacle the state stays PLAYING and no 'gameover' is requested
C3_Collision ==
    [][ (gameState = "PLAYING" /\ ev'.op = "frame") =>
          IF AnyOverlap(obstacles', playerY')
          THEN gameState' = "GAME_OVER" /\ "gameover" \in Range(ev'.cues)
          ELSE gameState' = "PLAYING" /\ "gameover" \notin Range(ev'.cues) ]_vars

\* a frame has found a collision and ended the run
C3_Witness ==
    /\ ev.op = "frame" /\ ev.hits > 0 /\ gameState = "GAME_OVER"
    /\ AnyOverlap(obstacles, playerY)

\* C4: in every GAME_OVER state highScore is at least the run's final score
C4_HighScoreAtGameOver == gameState = "GAME_OVER" => highScore >= score

\* C5: no step lowers highScore
C5_HighScoreMonotone == [][ highScore' >= highScore ]_vars

\* a retry started while a best score was on record
C5_Witness == run.n = 2 /\ highScore > 0 /\ ev.op = "startGame"

PastLeftEdge(o) == o.x + o.w < 0

\* C6: startGame sets score to 0; a frame raises it by the number of entries
\* that have scrolled fully past the left edge, which are the entries it
\* removes; no other step changes it
C6_Score ==
    [][ CASE ev'.op = "startGame" -> score' = 0
          [] ev'.op = "frame" ->
               LET all == obstacles \o ev'.spawned
                   n == Cardinality({i \in 1..Len(all) :
                           PastLeftEdge([all[i] EXCEPT !.x = @ - gameSpeed'])})
               IN  IF ev'.playing
                   THEN score' = score + n /\ Len(obstacles') = Len(all) - n
                   ELSE score' = score /\ obstacles' = obstacles
          [] OTHER -> score' = score ]_vars

\* a frame has removed an obstacle and the score is 1
C6_Witness == ev.op = "frame" /\ ev.removed = 1 /\ score = 1

Period(d) == CASE d = "EASY" -> 300 [] d = "MEDIUM" -> 100 [] OTHER -> 40

MultiplesIn(a, b, p) == Cardinality({f \in a..(b - 1) : f % p = 0})

\* C8: a frame that runs the Playing branch spawns exactly when the frame
\* counter is a multiple of the difficulty's period, so the spawn events of a
\* run are the multiples of the period among its frames
C8_SpawnSchedule ==
    [][ (ev'.op = "frame" /\ ev'.playing) =>
          /\ (ev'.spawned # << >>) <=> (frameRef % Period(difficulty) = 0)
          /\ frameRef' = frameRef + 1
          /\ run'.spawns = MultiplesIn(run'.start, frameRef', Period(difficulty')) ]_vars

\* a spawn in a run that started after idle frames
C8_Witness == run.start > 0 /\ run.spawns >= 1 /\ ev.spawned # << >>

StartSpeed(d) == CASE d = "EASY" -> 3000 [] d = "MEDIUM" -> 6000 [] OTHER -> 10000

IncrementOf(d) == CASE d = "EASY" -> 2 [] d = "MEDIUM" -> 50 [] OTHER -> 150

\* C9: from the first startGame on, gameSpeed is the difficulty's initial
\* speed plus its increment times the spawn events of the run, and it changes
\* only in startGame and in spawn frames
C9_ScrollSpeed ==
    [][ /\ run'.n >= 1 =>
             gameSpeed' = StartSpeed(difficulty') + IncrementOf(difficulty') * run'.spawns
        /\ gameSpeed' # gameSpeed =>
             \/ ev'.op = "startGame"
             \/ ev'.op = "frame" /\ ev'.spawned # << >> ]_vars

\* three spawn events into a Hard run
C9_Witness == difficulty = "HARD" /\ run.spawns = 3 /\ gameSpeed = 10450

----------------------------------------------------------------------------
\* frames an obstacle has lived when the current frame ends, the frame of
\* its spawn event counted as the first
FramesSinceSpawn == frameRef' - LastSpawnFrame

CeilDiv(a, b) == (a + b - 1) \div b

\* a frame of a collision-free run that takes the live obstacle out
RemovalFrame ==
    /\ ev'.op = "frame"
    /\ gameState' = "PLAYING"
    /\ Len(obstacles) = 1
    /\ obstacles' = << >>

\* C7 (as stated): at constant speed s an obstacle of width w is removed
\* after exactly ceil((1280 + w) / s) frames, for every s and w, also where
\* (1280 + w) / s is an integer.
C7_RemovalAtCeil ==
    [][RemovalFrame =>
         FramesSinceSpawn = CeilDiv(W + obstacles[1].w, gameSpeed)]_vars

\* C7 (amended): at constant speed s an obstacle of width w spawned at
\* x = 1280 is removed, and the score incremented by one, in frame
\* floor((1280 + w) / s) + 1 counted from its spawn frame and in no earlier
\* frame; this is ceil((1280 + w) / s) unless (1280 + w) / s is an integer,
\* where the obstacle stays for one frame more.
C7_RemovalFrame ==
    [][/\ RemovalFrame =>
            /\ FramesSinceSpawn = ((W + obstacles[1].w) \div gameSpeed) + 1
            /\ score' = score + 1
       /\ (ev'.op = "frame" /\ Len(obstacles) = 1 /\ Len(obstacles') = 1) =>
            /\ FramesSinceSpawn <= (W + obstacles[1].w) \div gameSpeed
            /\ score' = score]_vars

\* C7 witness: a pillar (width 60) at speed 5, where 1340 / 5 = 268 is an
\* integer, has just been removed in its frame 269.
C7_Witness ==
    /\ gameState = "PLAYING"
    /\ gameSpeed = 5 * Scale
    /\ ev.op = "frame" /\ ev.removed = 1
    /\ obstacles = << >>
    /\ frameRef - run.spawns * SpawnRate(difficulty) + SpawnRate(difficulty) = 269
    /\ score = run.spawns

----------------------------------------------------------------------------
IsGate(sp) ==
    /\ Len(sp) = 2
    /\ \A i \in 1..2 : sp[i].color = "#7209B7" /\ sp[i].w = PillarWidth * Scale
    /\ sp[1].y = 0
    /\ sp[2].y + sp[2].h = H
    /\ sp[2].y - sp[1].h = GapSize(difficulty) * Scale

IsCrate(sp) ==
    /\ Len(sp) = 1
    /\ sp[1].type = "floating"
    /\ sp[1].w = CrateSize * Scale /\ sp[1].h = CrateSize * Scale

IsPillar(sp) ==
    /\ Len(sp) = 1
    /\ sp[1].color = "#F72585"
    /\ sp[1].w = PillarWidth * Scale
    /\ sp[1].h >= 100 * Scale /\ sp[1].h < 300 * Scale
    /\ sp[1].y = 0 \/ sp[1].y + sp[1].h = H

\* C10: in a spawn event with selection draw r, a gate is spawned iff
\* Score >= 10 and r > 0.6, a floating crate iff Score >= 10 and
\* 0.4 < r <= 0.6, and a pillar otherwise (Score < 10 or r <= 0.4).
C10_Archetype ==
    [][(ev'.op = "frame" /\ ev'.spawned # << >>) =>
         IF score >= AdvancedScore /\ ev'.rand > 600 THEN IsGate(ev'.spawned)
         ELSE IF score >= AdvancedScore /\ ev'.rand > 400 THEN IsCrate(ev'.spawned)
         ELSE IsPillar(ev'.spawned)]_vars

----------------------------------------------------------------------------
\* C11: startGame, entered from Tutorial or from GameOver, sets Score = 0,
\* playerY = 360, velocity = 0, empties the obstacle and the sparkle
\* collection, sets the scroll speed to 3 / 6 / 10 by Difficulty, requests
\* the 'start' cue and sets the state to Playing; applied to its own result
\* it yields the same avatar state, Score, collections and scroll speed.
C11_StartGame ==
    [][ev'.op = "startGame" =>
         /\ gameState \in {"TUTORIAL", "GAME_OVER"}
         /\ score' = 0
         /\ playerY' = 360 * Scale
         /\ playerVelocity' = 0
         /\ obstacles' = << >>
         /\ sparklesRef' = << >>
         /\ gameSpeed' = StartSpeed(difficulty)
         /\ ev'.cues = << "start" >>
         /\ gameState' = "PLAYING"
         /\ StartReset(RunState') = RunState']_vars

\* C11 witness: a retry on Hard that discarded live obstacles and the
\* sparkles of a milestone burst.
C11_Witness ==
    /\ ev.op = "startGame"
    /\ run.n = 2
    /\ ev.cleared > SparkleCount
    /\ gameSpeed = 10 * Scale

----------------------------------------------------------------------------
\* C12: a frame callback executed while the game state is Tutorial or
\* GameOver leaves avatar position and velocity, the obstacle collection,
\* Score, HighScore and scroll speed unchanged and spawns no obstacle:
\* generation, physics and collision / scoring happen only in Playing.
C12_FrozenOutsidePlaying ==
    [][(ev'.op = "frame" /\ gameState \in {"TUTORIAL", "GAME_OVER"}) =>
         /\ UNCHANGED << playerY, playerVelocity, obstacles, score, highScore,
                         gameSpeed >>
         /\ ev'.spawned = << >>
         /\ ~ev'.playing]_vars

----------------------------------------------------------------------------
\* C13: each pose sample sets the smoothed intensity to
\* 0.8 * previous + 0.2 * raw (here to the thousandth), and after any
\* sequence of pose samples, in any mode, and slider changes the smoothed
\* intensity lies in [0, 1].
C13_Smoothing ==
    [][/\ intensityRef' \in 0..Scale
       /\ ev'.op = "pose" =>
            /\ ev'.raw \in 0..Scale
            /\ Scale * intensityRef' <= 800 * intensityRef + 200 * ev'.raw
            /\ 800 * intensityRef + 200 * ev'.raw < Scale * (intensityRef' + 1)]_vars

\* C13 witness: in Lunge mode a second sample of raw intensity 1 has taken
\* the smoothed intensity from 0.2 to 0.36.
C13_Witness ==
    /\ mode = "LUNGE"
    /\ ev.op = "pose" /\ ev.raw = Scale
    /\ intensityRef = 360

\* C14: the 'jump' cue is requested exactly on a sample whose smoothed
\* intensity is > 0.6 while the latch is false, and that sample sets the
\* latch; the latch is set by nothing else and is cleared only on a sample
\* whose smoothed intensity is < 0.4; a sample whose smoothed intensity is in
\* [0.4, 0.6] neither changes the latch nor requests a cue.
C14_JumpLatch ==
    [][LET sample == ev'.op = "pose"
           cue == NumCues(ev'.cues, "jump")
       IN  /\ cue = (IF sample /\ intensityRef' > 600 /\ ~wasJumpingRef THEN 1 ELSE 0)
           /\ (~wasJumpingRef /\ wasJumpingRef') <=> cue = 1
           /\ (wasJumpingRef /\ ~wasJumpingRef') => sample /\ intensityRef' < 400
           /\ (sample /\ intensityRef' < 400) => ~wasJumpingRef'
           /\ (sample /\ intensityRef' \in 400..600) =>
                 wasJumpingRef' = wasJumpingRef /\ cue = 0]_vars

\* C14 witness: a sample in the band [0.4, 0.6] arrives with the latch set,
\* the cue having fired on an earlier sample.
C14_Witness ==
    /\ ev.op = "pose" /\ ev.cues = << >>
    /\ intensityRef \in 400..600
    /\ wasJumpingRef

----------------------------------------------------------------------------
\* a pose result with landmarks, interpreted by the camera branch
Interpreted(m) ==
    ev'.op = "pose" /\ mode = m /\ ~isSimulation /\ ev'.pose # NoLandmarks

LeftKneeAngle(pose) ==
    calculateAngle(pose[LEFT_HIP], pose[LEFT_KNEE], pose[LEFT_ANKLE])

RightKneeAngle(pose) ==
    calculateAngle(pose[RIGHT_HIP], pose[RIGHT_KNEE], pose[RIGHT_ANKLE])

LegLandmarks(m) ==
    IF m = "SQUAT" THEN {LEFT_HIP, LEFT_KNEE, LEFT_ANKLE}
    ELSE {LEFT_HIP, LEFT_KNEE, LEFT_ANKLE, RIGHT_HIP, RIGHT_KNEE, RIGHT_ANKLE}

Trusted(m, pose) == \A i \in LegLandmarks(m) : pose[i].visibility >= 500

Clamp01(n) == IF n < 0 THEN 0 ELSE IF n > Scale THEN Scale ELSE n

\* 1 - clamp((angle - lo) / (hi - lo), 0, 1) in thousandths
BendIntensity(angle, lo, hi) ==
    Scale - Clamp01(((angle - lo) * Scale) \div (hi - lo))

\* C15: in Squat mode the raw intensity of a sample is
\* 1 - clamp((angle - 70) / 90, 0, 1) of its hip-knee-ankle angle: 0 from
\* 160 degrees up, 1 from 70 degrees down, about 0.778 at 90 degrees.
C15_SquatIntensity ==
    [][(Interpreted("SQUAT") /\ Trusted("SQUAT", ev'.pose)) =>
         ev'.raw = BendIntensity(LeftKneeAngle(ev'.pose), 70, 160)]_vars

\* C16: in Lunge mode the raw intensity of a sample is the larger of
\* 1 - clamp((kneeAngle - 90) / 70, 0, 1) over the two legs: 1 whenever either
\* knee angle is <= 90 degrees, 0 exactly when both are >= 160 degrees.
C16_LungeIntensity ==
    [][(Interpreted("LUNGE") /\ Trusted("LUNGE", ev'.pose)) =>
         ev'.raw = Max(BendIntensity(LeftKneeAngle(ev'.pose), 90, 160),
                       BendIntensity(RightKneeAngle(ev'.pose), 90, 160))]_vars

\* C17: in ArmRaise mode the raw intensity of a sample is 1.0 when both
\* wrists have a smaller y than the nose, 0.5 when exactly one has, and 0.0
\* otherwise; a wrist at the y of the nose does not count as above.
C17_ArmRaiseIntensity ==
    [][Interpreted("ARM_RAISE") =>
         LET above == {w \in {LEFT_WRIST, RIGHT_WRIST} :
                         ev'.pose[w].y < ev'.pose[NOSE].y}
         IN  ev'.raw = CASE Cardinality(above) = 2 -> Scale
                         [] Cardinality(above) = 1 -> Scale \div 2
                         [] OTHER -> 0]_vars

\* C17 witness: one wrist above the nose, the other level with it: 0.5.
C17_Witness ==
    /\ ev.op = "pose" /\ mode = "ARM_RAISE" /\ ~isSimulation
    /\ ev.pose # NoLandmarks
    /\ ev.pose[LEFT_WRIST].y < ev.pose[NOSE].y
    /\ ev.pose[RIGHT_WRIST].y = ev.pose[NOSE].y
    /\ ev.raw = Scale \div 2

\* C18: with the camera running a result without landmarks is interpreted to
\* raw intensity 0 in every mode, so the smoothed intensity becomes 0.8 times
\* its previous value: it never grows and falls as long as it is positive.
C18_NoLandmarks ==
    [][(ev'.op = "pose" /\ ~isSimulation /\ ev'.pose = NoLandmarks) =>
         /\ ev'.raw = 0
         /\ intensityRef' = (intensityRef * 8) \div 10
         /\ intensityRef' <= intensityRef
         /\ intensityRef > 0 => intensityRef' < intensityRef]_vars

\* C18 witness: in Squat mode a result without landmarks has lowered a
\* smoothed intensity that had passed 0.6 (the latch is still set) into the
\* band below 0.5.
C18_Witness ==
    /\ mode = "SQUAT" /\ ~isSimulation
    /\ ev.op = "pose" /\ ev.pose = NoLandmarks /\ ev.raw = 0
    /\ wasJumpingRef
    /\ intensityRef \in 400..500

\* C19: in Squat or Lunge mode a sample in which a hip, knee or ankle used
\* by the mode's angle has visibility below 0.5 is interpreted to raw
\* intensity 0.
C19_LowVisibility ==
    [][((Interpreted("SQUAT") \/ Interpreted("LUNGE")) /\ ~Trusted(mode, ev'.pose)) =>
         ev'.raw = 0]_vars

----------------------------------------------------------------------------
\* C20: a Playing frame that runs with no new pose sample since the frame
\* before it treats the player as resting: the intensity the physics applies
\* decays, so a positive intensity is lower after such a frame.
C20_StaleSampleDecays ==
    [][(ev.op = "frame" /\ ev'.op = "frame" /\ ev'.playing /\ intensityRef > 0) =>
         intensityRef' < intensityRef]_vars

\* C21: for a reference range with min < max, normalize(value, min, max, false)
\* is 0 when value <= min and 1 when value >= max, it is always in [0, 1], and
\* normalize(value, min, max, true) is 1 minus it.
C21_Normalize ==
    ev.op = "normalize" =>
        LET value == ev.args[1]
            min == ev.args[2]
            max == ev.args[3]
        IN  min < max =>
              /\ value <= min => ev.out[1] = 0
              /\ value >= max => ev.out[1] = Scale
              /\ ev.out[1] \in 0..Scale
              /\ ev.out[2] = Scale - ev.out[1]

\* C21 witness: a value above an increasing range is normalized to 1, and to 0
\* when inverted
C21_Witness ==
    /\ ev.op = "normalize"
    /\ ev.args[2] < ev.args[3]
    /\ ev.args[1] > ev.args[3]
    /\ ev.out = << Scale, 0 >>

\* C22: calculateAngle(A, B, C) = calculateAngle(C, B, A), and the result lies
\* in [0, 180] degrees.
C22_Angle ==
    ev.op = "calculateAngle" =>
        /\ ev.out[1] = ev.out[2]
        /\ ev.out[1] \in 0..180

\* C22 witness: the two directions differ by 270 degrees and the angle is 90
C22_Witness ==
    /\ ev.op = "calculateAngle"
    /\ LET a == ev.args[1]
           b == ev.args[2]
           c == ev.args[3]
       IN  Abs(Atan2Deg(c[2] - b[2], c[1] - b[1])
               - Atan2Deg(a[2] - b[2], a[1] - b[1])) = 270
    /\ ev.out = << 90, 90 >>

\* positive multiples of 10 in a+1..b
MilestonesIn(a, b) == Cardinality({n \in (a + 1)..b : n > 0 /\ n % 10 = 0})

\* C23: a step in which Score becomes a positive multiple of 10 requests exactly
\* one 'score' cue and adds exactly 40 sparkles, also when it removes two
\* obstacles; no other step (other score values, the reset to 0) requests the
\* cue or adds a sparkle.
C23_Milestone ==
    [][LET k == MilestonesIn(score, score')
       IN  /\ NumCues(ev'.cues, "score") = k
           /\ k <= 1
           /\ IF ev'.op = "frame"
              THEN Len(sparklesRef')
                     = Len(UpdateSparkles(sparklesRef)) + SparkleCount * k
              ELSE k = 0 /\ Len(sparklesRef') <= Len(sparklesRef)]_vars

\* C23 witness: a frame removed both rectangles of a gate, the score passed
\* from 4999 to 5001, one cue was requested and the burst is in the collection
C23_Witness ==
    /\ ev.op = "frame"
    /\ ev.removed = 2
    /\ score = 5001
    /\ NumCues(ev.cues, "score") = 1
    /\ Len(sparklesRef) = SparkleCount

\* C24: when a cue cannot be played (no AudioContext, or an audio call throws)
\* no exception reaches the caller, which ends as in the successful case: a
\* frame applies its collision and scoring, counts the frame and schedules the
\* next one; startGame enters Playing with the score at 0; the pose callback
\* sets the jump latch.
C24_AudioFailure ==
    [][(ev'.cues # << >> /\ ev'.played < Len(ev'.cues)) =>
         /\ ~ev'.thrown
         /\ requestRef'
         /\ ev'.op = "frame" =>
               /\ frameRef' = frameRef + 1
               /\ gameState' = CollisionState(ev'.hits, gameState)
               /\ score' = ScoreAfter(score, ev'.removed)
         /\ ev'.op = "startGame" =>
               /\ gameState' = "PLAYING"
               /\ score' = 0
               /\ obstacles' = << >>
         /\ ev'.op = "pose" =>
               /\ wasJumpingRef'
               /\ intensityRef' = Smooth(intensityRef, ev'.raw)]_vars

\* C24 witness: an audio call threw in the 'gameover' cue of a collision frame;
\* the game is over and the next frame callback is pending
C24_Witness ==
    /\ ev.op = "frame"
    /\ ev.cues = << "gameover" >>
    /\ ev.audio = "callThrows"
    /\ ev.played = 0
    /\ gameState = "GAME_OVER"
    /\ requestRef

\* gravity and lift multiplier of the three difficulties, in thousandths
PresetOf(d) ==
    CASE d = "EASY" -> [gravity |-> 120, liftMultiplier |-> 4000]
      [] d = "MEDIUM" -> [gravity |-> 500, liftMultiplier |-> 1800]
      [] d = "HARD" -> [gravity |-> 1100, liftMultiplier |-> 1100]

Clamp(x, lo, hi) == IF x < lo THEN lo ELSE IF x > hi THEN hi ELSE x

\* C25: a Playing frame sets velocity' = clamp(velocity + gravity - I *
\* liftMultiplier, -15, 15) and position' = position + velocity', then clamps
\* the position to [0, 660] and zeroes the velocity if it was clamped; I is
\* the smoothed intensity and (gravity, liftMultiplier) the preset of the
\* difficulty: (0.12, 4.0), (0.5, 1.8), (1.1, 1.1).
C25_AvatarPhysics ==
    [][(ev'.op = "frame" /\ gameState = "PLAYING") =>
         LET preset == PresetOf(difficulty)
             lift == (intensityRef * preset.liftMultiplier) \div Scale
             v == Clamp(playerVelocity + preset.gravity - lift,
                        -15 * Scale, 15 * Scale)
             y == playerY + v
         IN  /\ ev'.playing
             /\ playerY' = Clamp(y, 0, 660 * Scale)
             /\ playerVelocity' = IF y < 0 \/ y > 660 * Scale THEN 0 ELSE v]_vars

\* C25 witness: a Playing frame under effort: the avatar is above mid-field
\* and still rising
C25_Witness ==
    /\ ev.op = "frame"
    /\ ev.playing
    /\ gameState = "PLAYING"
    /\ intensityRef > 0
    /\ playerVelocity < 0
    /\ playerY < H \div 2

\* C26: a gate is two rectangles at x = 1280: the top one from y = 0 with
\* height gapY, the bottom one from y = gapY + gap to y = 720, gap being 300,
\* 180 or 150 on Easy, Medium or Hard; for every draw both heights are
\* strictly positive and the gap lies inside the field.
C26_GateGeometry ==
    (ev.op = "frame" /\ cScore >= 10 /\ ev.rand > 600) =>
        LET gap == CASE difficulty = "EASY" -> 300 * Scale
                     [] difficulty = "MEDIUM" -> 180 * Scale
                     [] difficulty = "HARD" -> 150 * Scale
            top == ev.spawned[1]
            bottom == ev.spawned[2]
        IN  /\ Len(ev.spawned) = 2
            /\ top.x = 1280 * Scale /\ bottom.x = 1280 * Scale
            /\ top.y = 0
            /\ bottom.y = top.h + gap
            /\ bottom.y + bottom.h = 720 * Scale
            /\ top.h > 0 /\ bottom.h > 0
            /\ 0 <= top.h /\ top.h + gap <= 720 * Scale

\* C26 witness: a gate of the largest draw on Medium
C26_Witness ==
    /\ ev.op = "frame"
    /\ difficulty = "MEDIUM"
    /\ cScore >= 10
    /\ ev.rand > 600
    /\ Len(ev.spawned) = 2
    /\ ev.spawned[1].h > 400 * Scale

\* a sparkle after the decrement of one frame
AgedSparkle(sp) == [sp EXCEPT !.alpha = @ - sp.decay]

StillLit(sp) == sp.alpha > 0

\* C27: in every frame, in every game state, each sparkle's alpha decreases by
\* its decay (between 0.01 and 0.03) and the sparkle is removed in the first
\* frame in which its alpha is <= 0; so every sparkle is gone within 100
\* frames of its creation, and the collection is empty from the 100th frame
\* after the last milestone on (run.burst is the frame of the last burst).
C27_SparkleDecay ==
    [][ev'.op = "frame" =>
         LET fresh == SparkleCount * NumCues(ev'.cues, "score")
             kept == SubSeq(sparklesRef', 1, Len(sparklesRef') - fresh)
             aged == [i \in 1..Len(sparklesRef) |-> AgedSparkle(sparklesRef[i])]
         IN  /\ kept = SelectSeq(aged, StillLit)
             /\ \A i \in 1..Len(sparklesRef') :
                  /\ sparklesRef'[i].decay \in 10..30
                  /\ sparklesRef'[i].alpha > 0
             /\ sparklesRef' # << >> =>
                  run'.burst >= 0 /\ frameRef' - run'.burst < 100]_vars

\* C27 witness: a frame in the rendered GameOver state has aged a sparkle of
\* the slowest decay to its 99th frame, alpha 0.01
C27_Witness ==
    /\ ev.op = "frame"
    /\ ~ev.playing
    /\ cGameState = "GAME_OVER"
    /\ frameRef - run.burst = 99
    /\ \E i \in 1..Len(sparklesRef) :
         sparklesRef[i].decay = 10 /\ sparklesRef[i].alpha = 10

\* C28: a Playing frame decreases the x of every live obstacle, the ones it
\* spawned included, by the current scroll speed exactly once, also when it
\* removes obstacles; the collection stays in spawn order, x is non-decreasing
\* along it, and the obstacles a frame removes are at its front.
C28_ObstacleOrder ==
    [][(ev'.op = "frame" /\ ev'.playing) =>
         LET all == obstacles \o ev'.spawned
             k == ev'.removed
         IN  /\ k <= Len(all)
             /\ Len(obstacles') = Len(all) - k
             /\ \A i \in 1..Len(obstacles') :
                  obstacles'[i] = [all[i + k] EXCEPT !.x = @ - gameSpeed']
             /\ \A i \in 1..k : all[i].x - gameSpeed' + all[i].w < 0
             /\ \A i \in 1..(Len(obstacles') - 1) :
                  obstacles'[i].x <= obstacles'[i + 1].x]_vars

\* C28 witness: a frame removed the two rectangles of a gate at the front of
\* the collection, and two or more obstacles remain
C28_Witness ==
    /\ ev.op = "frame"
    /\ ev.playing
    /\ ev.removed = 2
    /\ Len(obstacles) >= 2

\* C29: HighScore is kept for the whole session: if it equals the greatest
\* Score of the runs ended so far, it still does after the exit to the menu
\* (from Tutorial or GameOver), the return and the start of the next game.
C29_HighScoreKept ==
    [][(ev'.op \in {"exit", "selectMode", "startGame"} /\ highScore = run.best) =>
         highScore' = run'.best]_vars

\* C30: passing the obstacle of one spawn event raises Score by exactly 1,
\* whatever its archetype; so while the run goes on, Score never exceeds the
\* number of spawn events of the run.
C30_ScorePerSpawn == gameState = "PLAYING" => score <= run.spawns

----------------------------------------------------------------------------
\* C31: in each run 'gameover' is requested exactly once and the step from
\* PLAYING to GAME_OVER is taken once: no frame finds a collision with more
\* than one obstacle, and after the collision frame no frame callback
\* handles a collision again before the next startGame (a frame requests
\* 'gameover' only while the game state is still PLAYING).
C31_GameOverOnce ==
    [][ ev'.op = "frame" =>
          /\ ev'.hits <= 1
          /\ NumCues(ev'.cues, "gameover") <= 1
          /\ ev'.hits > 0 => gameState = "PLAYING" ]_vars

----------------------------------------------------------------------------
\* C32: at most one frame callback is pending at any moment: a re-creation
\* of updateGame (re-render after a frame's state updates, startGame, a
\* difficulty button) cancels the pending callback before it requests the
\* new one; a frame callback is the only pending one when it runs, advances
\* the frame counter by exactly 1 and leaves exactly one pending; after the
\* exit to the menu none is pending, so none runs.
C32_SingleLoop ==
    [][ /\ pendingFrames <= 1 /\ pendingFrames' <= 1
        /\ mode' = "MENU" => pendingFrames' = 0
        /\ ev'.op = "frame" =>
              pendingFrames = 1 /\ pendingFrames' = 1 /\ frameRef' = frameRef + 1
        /\ ev'.op \in {"render", "startGame", "setDifficulty", "selectMode"} =>
              pendingFrames' = 1 /\ requestRef' ]_vars

\* in the second mount of the session, the loop has been swapped to a new
\* updateGame after frames of a game
C32_Witness ==
    /\ budget.exits = 1 /\ mode # "MENU"
    /\ ev.op = "render" /\ frameRef > 0
    /\ pendingFrames = 1

----------------------------------------------------------------------------
\* C33: however the MediaPipe initialisation interleaves with the exit to
\* the menu and with the fallback to simulation, every Pose and Camera that
\* was created is closed / stopped once the effect's cleanup has run and the
\* initialisation has passed the script loading, and no result of the Pose
\* is delivered to onPoseResults after the cleanup has run.
C33_MediaCleanup ==
    [][ /\ (media'.cleaned /\ media'.phase # "loading") =>
              media'.pose # "open" /\ media'.camera # "started"
        /\ (ev'.op = "pose" /\ ~isSimulation) => ~media.cleaned ]_vars

----------------------------------------------------------------------------
\* C34: in simulation mode every tick of the 50 ms interval feeds the
\* current slider value to the smoother as the raw intensity, so a tick
\* never moves the smoothed intensity away from the slider value: an
\* intensity that equals the slider value stays there.
C34_SliderTick ==
    [][ (ev'.op = "pose" /\ isSimulation) =>
          /\ ev'.raw = simIntensity
          /\ Abs(intensityRef' - simIntensity) <= Abs(intensityRef - simIntensity)
          /\ intensityRef = simIntensity => intensityRef' = simIntensity ]_vars
====
